---- MODULE Spec2Model ----
(***************************************************************************)
(* Model of the chronoframe system-diagnostics endpoint                    *)
(* (src/unnamed/part_000) and of the process-wide SQLite singleton it      *)
(* reads through (src/server/utils/db.ts).                                 *)
(*                                                                         *)
(* Time is counted in minutes since 1970-01-01T00:00Z.  Strings that the   *)
(* code inspects character by character are sequences of UTF-16 code       *)
(* units.  Calendar dates are <<year, month, day>> and ISO timestamps are  *)
(* <<year, month, day, hour, minute>>, compared the way the strings are    *)
(* compared: field by field, left to right.                                *)
(***************************************************************************)
EXTENDS Integers, Sequences, FiniteSets, TLC

\* null/undefined, and the failure of a call that throws or rejects.
Null == [isNull |-> TRUE]
Throws == [throws |-> TRUE]

\* A JavaScript number is <<n>>; NaN is the empty tuple.
Num(n) == <<n>>
NaN == <<>>

\* undefined where the code expects a string: one unit that is no code unit.
Undefined == <<-1>>

MinutesPerDay == 24 * 60

(***************************************************************************)
(* Bounds of the model.                                                    *)
(***************************************************************************)
MaxPhotos == 2      \* records in the store
MaxElapsed == 1     \* minutes that may pass after the process started
MaxConn == 2        \* SQLite connections the process can hold open

(***************************************************************************)
(* Proleptic Gregorian calendar, as Date implements it.                    *)
(***************************************************************************)
DaysFromCivil(y, m, d) ==
  LET yy  == IF m <= 2 THEN y - 1 ELSE y
      era == yy \div 400
      yoe == yy - era * 400
      mp  == IF m > 2 THEN m - 3 ELSE m + 9
      doy == (153 * mp + 2) \div 5 + d - 1
      doe == yoe * 365 + yoe \div 4 - yoe \div 100 + doy
  IN  era * 146097 + doe - 719468

CivilFromDays(z) ==
  LET zz  == z + 719468
      era == zz \div 146097
      doe == zz - era * 146097
      yoe == (doe - doe \div 1460 + doe \div 36524 - doe \div 146096) \div 365
      doy == doe - (365 * yoe + yoe \div 4 - yoe \div 100)
      mp  == (5 * doy + 2) \div 153
      d   == doy - (153 * mp + 2) \div 5 + 1
      m   == IF mp < 10 THEN mp + 3 ELSE mp - 9
      y   == yoe + era * 400 + (IF m <= 2 THEN 1 ELSE 0)
  IN  <<y, m, d>>

\* A host time zone: offset std (minutes east of UTC) before the UTC instant
\* at, offset dst from that instant on.  A fixed zone has std = dst.
Offset(tz, t) == IF t < tz.at THEN tz.std ELSE tz.dst

\* Local wall-clock minutes of the instant t.
LocalTime(tz, t) == t + Offset(tz, t)

\* The instant of a local wall-clock time; a repeated or skipped local time
\* is read with the offset in force before the transition.
UTCOf(tz, l) ==
  IF l - tz.std < tz.at THEN l - tz.std
  ELSE IF l - tz.dst >= tz.at THEN l - tz.dst
  ELSE l - tz.std

\* Date.prototype.getDate: local day of the month.
getDate(tz, t) == CivilFromDays(LocalTime(tz, t) \div MinutesPerDay)[3]

\* Date.prototype.setHours(0, 0, 0, 0): local midnight of the local date.
setHours0(tz, t) ==
  UTCOf(tz, (LocalTime(tz, t) \div MinutesPerDay) * MinutesPerDay)

\* Date.prototype.setDate(n): day n of the local year and month of t, the
\* local time of day kept; n outside the month rolls over.
setDate(tz, t, n) ==
  LET l   == LocalTime(tz, t)
      ymd == CivilFromDays(l \div MinutesPerDay)
      tod == l % MinutesPerDay
  IN  UTCOf(tz, (DaysFromCivil(ymd[1], ymd[2], 1) + n - 1) * MinutesPerDay + tod)

\* Date.prototype.toISOString: the UTC fields of the instant.
toISOString(t) ==
  LET ymd == CivilFromDays(t \div MinutesPerDay)
      tod == t % MinutesPerDay
  IN  <<ymd[1], ymd[2], ymd[3], tod \div 60, tod % 60>>

\* toISOString().split('T')[0] and SQLite DATE(): the date part.
DatePart(iso) == <<iso[1], iso[2], iso[3]>>

\* Comparison of two timestamps or dates of one format, as text.
RECURSIVE LexLess(_, _)
LexLess(a, b) ==
  IF a = <<>> \/ b = <<>> THEN a = <<>> /\ b # <<>>
  ELSE IF Head(a) # Head(b) THEN Head(a) < Head(b)
  ELSE LexLess(Tail(a), Tail(b))

\* drizzle gte(column, value): column >= value.
gte(a, b) == ~LexLess(a, b)

\* The calendar date that follows d.
NextDate(d) == CivilFromDays(DaysFromCivil(d[1], d[2], d[3]) + 1)

\* The local calendar date of the instant t.
LocalDate(tz, t) == CivilFromDays(LocalTime(tz, t) \div MinutesPerDay)

(***************************************************************************)
(* Strings as sequences of UTF-16 code units.                              *)
(***************************************************************************)
S_docker == <<100, 111, 99, 107, 101, 114>>
S_unknown == <<117, 110, 107, 110, 111, 119, 110>>
S_windows == <<119, 105, 110, 100, 111, 119, 115>>
S_11 == <<49, 49>>
S_10 == <<49, 48>>
S_Windows11 ==
  <<77, 105, 99, 114, 111, 115, 111, 102, 116, 32, 87, 105, 110, 100, 111,
    119, 115, 32, 49, 49>>
S_Windows10 ==
  <<77, 105, 99, 114, 111, 115, 111, 102, 116, 32, 87, 105, 110, 100, 111,
    119, 115, 32, 49, 48>>
S_WindowsPlain ==
  <<77, 105, 99, 114, 111, 115, 111, 102, 116, 32, 87, 105, 110, 100, 111,
    119, 115>>
S_MemTotal == <<77, 101, 109, 84, 111, 116, 97, 108, 58>>
S_MemAvailable == <<77, 101, 109, 65, 118, 97, 105, 108, 97, 98, 108, 101, 58>>

\* String.prototype.includes
includes(s, sub) ==
  \E i \in 1..(Len(s) - Len(sub) + 1) : SubSeq(s, i, i + Len(sub) - 1) = sub

\* String.prototype.startsWith
startsWith(s, prefix) ==
  Len(s) >= Len(prefix) /\ SubSeq(s, 1, Len(prefix)) = prefix

\* String.prototype.toLowerCase on the code units the model feeds it: ASCII
\* and Latin-1 capitals move by 32, every other unit is kept.
toLowerCase(s) ==
  [i \in 1..Len(s) |->
     IF s[i] \in 65..90 \/ s[i] \in (192..222) \ {215} THEN s[i] + 32 ELSE s[i]]

\* White space of the regular expression \s and of trim().
IsWhiteSpace(c) ==
  c \in {9, 10, 11, 12, 13, 32, 160, 5760, 8232, 8233, 8239, 8287, 12288, 65279}
        \cup (8192..8202)

RECURSIVE trimStart(_)
trimStart(s) ==
  IF s # <<>> /\ IsWhiteSpace(Head(s)) THEN trimStart(Tail(s)) ELSE s

RECURSIVE trimEnd(_)
trimEnd(s) ==
  IF s # <<>> /\ IsWhiteSpace(s[Len(s)])
  THEN trimEnd(SubSeq(s, 1, Len(s) - 1)) ELSE s

\* String.prototype.trim
trim(s) == trimEnd(trimStart(s))

\* distro.replace(/[^\x00-\x7F]/g, '')
IsAscii(c) == c <= 127
stripNonAscii(s) == SelectSeq(s, IsAscii)

\* s.split(sep) for a one-unit separator: the pieces between separators.
RECURSIVE split(_, _)
split(s, sep) ==
  IF \A i \in 1..Len(s) : s[i] # sep THEN <<s>>
  ELSE LET k == CHOOSE i \in 1..Len(s) :
                  s[i] = sep /\ \A j \in 1..(i - 1) : s[j] # sep
       IN  <<SubSeq(s, 1, k - 1)>> \o split(SubSeq(s, k + 1, Len(s)), sep)

\* line.split(/\s+/): the pieces between maximal runs of white space.
RECURSIVE splitWS(_)
splitWS(s) ==
  IF \A i \in 1..Len(s) : ~IsWhiteSpace(s[i]) THEN <<s>>
  ELSE LET k == CHOOSE i \in 1..Len(s) :
                  IsWhiteSpace(s[i]) /\ \A j \in 1..(i - 1) : ~IsWhiteSpace(s[j])
       IN  <<SubSeq(s, 1, k - 1)>> \o splitWS(trimStart(SubSeq(s, k, Len(s))))

\* The value of the leading decimal digits of s, acc digits already read.
RECURSIVE digitsValue(_, _)
digitsValue(s, acc) ==
  IF s # <<>> /\ Head(s) \in 48..57
  THEN digitsValue(Tail(s), acc * 10 + (Head(s) - 48)) ELSE acc

\* parseInt(x) of a decimal token or of undefined: leading white space and a
\* sign are skipped, the digits that follow are read, anything after them is
\* ignored; NaN when there is no digit.
parseInt(x) ==
  IF x = Undefined THEN NaN
  ELSE LET t == trimStart(x)
           neg == t # <<>> /\ Head(t) = 45
           u == IF t # <<>> /\ Head(t) \in {43, 45} THEN Tail(t) ELSE t
       IN  IF u = <<>> \/ Head(u) \notin 48..57 THEN NaN
           ELSE Num((IF neg THEN -1 ELSE 1) * digitsValue(u, 0))

\* Arithmetic and comparison of JavaScript numbers.
Mul(x, k) == IF x = NaN THEN NaN ELSE Num(x[1] * k)
Sub(x, y) == IF x = NaN \/ y = NaN THEN NaN ELSE Num(x[1] - y[1])
GreaterThanZero(x) == x # NaN /\ x[1] > 0

\* array[i] of a zero-based index: undefined past the end.
At(arr, i) == IF i + 1 <= Len(arr) THEN arr[i + 1] ELSE Undefined

(***************************************************************************)
(* The host the process runs on.  A host is a record                       *)
(*   fs      : Throws, or which marker files exist                         *)
(*   meminfo : Throws, or [text |-> the content of /proc/meminfo]          *)
(*   simem   : Throws, or the answer of si.mem()                           *)
(*   heap    : Throws, or the answer of process.memoryUsage()              *)
(*   os      : Throws, or the answer of si.osInfo()                        *)
(*   pool    : Null when globalThis.__workerPool is not set, else what     *)
(*             getPoolStats() does: Throws, or a statistics snapshot       *)
(***************************************************************************)

\* checkIfDocker: either marker file exists; a failure counts as false.
checkIfDocker(host) ==
  IF host.fs = Throws THEN FALSE ELSE host.fs.dockerenv \/ host.fs.cgroup

\* The loop body of getDockerMemoryInfo for one line.
meminfoLine(acc, line) ==
  IF startsWith(line, S_MemTotal)
  THEN [acc EXCEPT !.totalMem = Mul(parseInt(At(splitWS(line), 1)), 1024)]
  ELSE IF startsWith(line, S_MemAvailable)
  THEN [acc EXCEPT !.availableMem = Mul(parseInt(At(splitWS(line), 1)), 1024)]
  ELSE acc

RECURSIVE meminfoLoop(_, _)
meminfoLoop(acc, lines) ==
  IF lines = <<>> THEN acc
  ELSE meminfoLoop(meminfoLine(acc, Head(lines)), Tail(lines))

\* Variant: a total of zero is accepted too.
totalMemAccepted_m(totalMem) == totalMem # NaN /\ totalMem[1] >= 0

\* The condition under which getDockerMemoryInfo accepts what it parsed.
totalMemAccepted(totalMem) == GreaterThanZero(totalMem)

\* getDockerMemoryInfo: { total, used } from /proc/meminfo, or null.
getDockerMemoryInfo(host) ==
  IF host.meminfo = Throws THEN Null
  ELSE LET m == meminfoLoop([totalMem |-> Num(0), availableMem |-> Num(0)],
                            split(host.meminfo.text, 10))
       IN  IF totalMemAccepted(m.totalMem)
           THEN [total |-> m.totalMem, used |-> Sub(m.totalMem, m.availableMem)]
           ELSE Null

\* getMemoryStats: the value returned (Throws when the call rejects), the
\* source it came from and the probes that were made on the way.
getMemoryStats(host) ==
  LET isDocker == checkIfDocker(host)
      docker   == IF isDocker THEN getDockerMemoryInfo(host) ELSE Null
      probes   == {"checkIfDocker"} \cup (IF isDocker THEN {"readMeminfo"} ELSE {})
  IN  IF docker # Null
      THEN [value |-> docker, from |-> "meminfo", probes |-> probes]
      ELSE IF host.simem # Throws
      THEN [value |-> [used |-> host.simem.used, total |-> host.simem.total],
            from |-> "si.mem", probes |-> probes \cup {"si.mem"}]
      ELSE IF host.heap # Throws
      THEN [value |-> [used |-> host.heap.heapUsed, total |-> host.heap.heapTotal],
            from |-> "heap", probes |-> probes \cup {"si.mem", "memoryUsage"}]
      ELSE [value |-> Throws, from |-> "none",
            probes |-> probes \cup {"si.mem", "memoryUsage"}]

\* getQueueStats: null without a pool, else what getPoolStats() answers.
getQueueStats(host) == IF host.pool = Null THEN Null ELSE host.pool.stats

\* Variant: the substring 10 is looked for before 11.
windowsLabel_m(distro) ==
  IF includes(distro, S_10) THEN S_Windows10
  ELSE IF includes(distro, S_11) THEN S_Windows11
  ELSE S_WindowsPlain

\* The label for a host whose distribution name mentions Windows.
windowsLabel(distro) ==
  IF includes(distro, S_11) THEN S_Windows11
  ELSE IF includes(distro, S_10) THEN S_Windows10
  ELSE S_WindowsPlain

\* a || b for strings: the empty string and undefined are falsy.
OrElse(a, b) == IF a = Undefined \/ a = <<>> THEN b ELSE a

\* The osInfo block of the handler: the label and the probes it made.
resolveOsInfo(host) ==
  IF checkIfDocker(host)
  THEN [label |-> S_docker, probes |-> {"checkIfDocker"}]
  ELSE IF host.os = Throws
  THEN [label |-> S_unknown, probes |-> {"checkIfDocker", "si.osInfo"}]
  ELSE LET distro == OrElse(OrElse(host.os.distro, host.os.platform), S_unknown)
       IN  [label |-> IF includes(toLowerCase(distro), S_windows)
                      THEN windowsLabel(distro)
                      ELSE OrElse(trim(stripNonAscii(distro)), S_unknown),
            probes |-> {"checkIfDocker", "si.osInfo"}]

(***************************************************************************)
(* The record store: photos is a set of rows, dateTaken an ISO timestamp.  *)
(***************************************************************************)

\* select count(*) from photos
countAll(rows) == [count |-> Cardinality(rows)]

\* The rows a where(gte(dateTaken, boundary)) clause keeps.
since(rows, boundary) == {p \in rows : gte(p.dateTaken, boundary)}

\* select count(*) from photos where dateTaken >= boundary
countSince(rows, boundary) == [count |-> Cardinality(since(rows, boundary))]

RECURSIVE sumSize(_)
sumSize(rows) ==
  IF rows = {} THEN 0
  ELSE LET p == CHOOSE q \in rows : TRUE IN p.fileSize + sumSize(rows \ {p})

\* select COALESCE(sum), COALESCE(avg), COALESCE(max) of file_size; the
\* average is kept as the fraction num / den.
storageQuery(rows) ==
  IF rows = {}
  THEN [totalSize |-> 0, avgSize |-> [num |-> 0, den |-> 1], maxSize |-> 0]
  ELSE [totalSize |-> sumSize(rows),
        avgSize   |-> [num |-> sumSize(rows), den |-> Cardinality(rows)],
        maxSize   |-> CHOOSE m \in {p.fileSize : p \in rows} :
                        \A p \in rows : p.fileSize <= m]

\* The dates of a set in ascending order.
RECURSIVE ascending(_)
ascending(dates) ==
  IF dates = {} THEN <<>>
  ELSE LET m == CHOOSE d \in dates : \A e \in dates : ~LexLess(e, d)
       IN  <<m>> \o ascending(dates \ {m})

\* select DATE(dateTaken), count(*) ... where dateTaken >= boundary
\* group by DATE(dateTaken) order by DATE(dateTaken) asc
trendQuery(rows, boundary) ==
  LET kept  == since(rows, boundary)
      dates == ascending({DatePart(p.dateTaken) : p \in kept})
  IN  [i \in 1..Len(dates) |->
         [date  |-> dates[i],
          count |-> Cardinality({p \in kept : DatePart(p.dateTaken) = dates[i]})]]

\* rawTrendData.find((row) => row.date === dateStr)
find(rows, dateStr) ==
  IF \E i \in 1..Len(rows) : rows[i].date = dateStr
  THEN rows[CHOOSE i \in 1..Len(rows) :
              rows[i].date = dateStr /\ \A j \in 1..(i - 1) : rows[j].date # dateStr]
  ELSE Null

\* Variant: a matching row counts as one record.
foundCount_m(found) == IF found # Null THEN 1 ELSE 0

\* found ? found.count : 0
foundCount(found) == IF found # Null THEN found.count ELSE 0

\* The boundary of "today": new Date() with setHours(0, 0, 0, 0).
todayOf(tz, now) == setHours0(tz, now)

\* Variant: the week boundary lies seven days ahead.
weekAgoOf_m(tz, now) == setHours0(tz, setDate(tz, now, getDate(tz, now) + 7))

\* The boundary of "this week": setDate(getDate() - 7), setHours(0, 0, 0, 0).
weekAgoOf(tz, now) == setHours0(tz, setDate(tz, now, getDate(tz, now) - 7))

\* The boundary of "this month": setDate(1), setHours(0, 0, 0, 0).
monthStartOf(tz, now) == setHours0(tz, setDate(tz, now, 1))

\* The first day of the trend: setDate(today.getDate() - 6) on a copy of today.
sevenDaysAgoOf(tz, today) ==
  setHours0(tz, setDate(tz, today, getDate(tz, today) - 6))

\* The date string of the i-th pass of the trend loop, i = 0..6.
dateStrOf(tz, sevenDaysAgo, i) ==
  DatePart(toISOString(setDate(tz, sevenDaysAgo, getDate(tz, sevenDaysAgo) + i)))

\* The trend loop: one point for each of seven dates, zero where no row matches.
buildTrendData(tz, sevenDaysAgo, rawTrendData) ==
  [k \in 1..7 |->
     LET dateStr == dateStrOf(tz, sevenDaysAgo, k - 1)
     IN  [date |-> dateStr, count |-> foundCount(find(rawTrendData, dateStr))]]

\* Array.prototype.toReversed
toReversed(arr) == [k \in 1..Len(arr) |-> arr[Len(arr) + 1 - k]]

\* row?.count || 0
countOrZero(row) == IF row = Null THEN 0 ELSE row.count

(***************************************************************************)
(* Inputs: hosts.                                                          *)
(***************************************************************************)
\* 'Microsoft Windows 11 (three CJK units)'
D_Win11zh ==
  <<77, 105, 99, 114, 111, 115, 111, 102, 116, 32, 87, 105, 110, 100, 111,
    119, 115, 32, 49, 49, 32, 19987, 19994, 29256>>
\* 'Windows 10 Home'
D_Win10 ==
  <<87, 105, 110, 100, 111, 119, 115, 32, 49, 48, 32, 72, 111, 109, 101>>
\* 'WINDOWS Server 2019'
D_WinServer ==
  <<87, 73, 78, 68, 79, 87, 83, 32, 83, 101, 114, 118, 101, 114, 32, 50,
    48, 49, 57>>
\* 'Windows 11 Pro 10.0'
D_Win11v10 ==
  <<87, 105, 110, 100, 111, 119, 115, 32, 49, 49, 32, 80, 114, 111, 32,
    49, 48, 46, 48>>
\* 'Ubuntu 22.04'
D_Ubuntu == <<85, 98, 117, 110, 116, 117, 32, 50, 50, 46, 48, 52>>
\* ' Debian (e acute) '
D_Debian == <<32, 68, 101, 98, 105, 97, 110, 32, 233, 32>>
\* two CJK units
D_Chinese == <<20013, 25991>>
\* 'linux'
P_linux == <<108, 105, 110, 117, 120>>
\* 'Windows'
P_Windows == <<87, 105, 110, 100, 111, 119, 115>>

\* 'MemTotal:       16 kB\nMemFree:        2 kB\nMemAvailable:   4 kB\n'
M_Full ==
  <<77, 101, 109, 84, 111, 116, 97, 108, 58, 32, 32, 32, 32, 32, 32, 32,
    49, 54, 32, 107, 66, 10, 77, 101, 109, 70, 114, 101, 101, 58, 32, 32,
    32, 32, 32, 32, 32, 32, 50, 32, 107, 66, 10, 77, 101, 109, 65, 118, 97,
    105, 108, 97, 98, 108, 101, 58, 32, 32, 32, 52, 32, 107, 66, 10>>
\* 'MemTotal:       16 kB\nMemFree:        2 kB\n'
M_NoAvailable ==
  <<77, 101, 109, 84, 111, 116, 97, 108, 58, 32, 32, 32, 32, 32, 32, 32,
    49, 54, 32, 107, 66, 10, 77, 101, 109, 70, 114, 101, 101, 58, 32, 32,
    32, 32, 32, 32, 32, 32, 50, 32, 107, 66, 10>>
\* 'MemTotal:       0 kB\nMemAvailable:   4 kB\n'
M_ZeroTotal ==
  <<77, 101, 109, 84, 111, 116, 97, 108, 58, 32, 32, 32, 32, 32, 32, 32,
    48, 32, 107, 66, 10, 77, 101, 109, 65, 118, 97, 105, 108, 97, 98, 108,
    101, 58, 32, 32, 32, 52, 32, 107, 66, 10>>
\* 'MemFree:        2 kB\nMemAvailable:   4 kB\n'
M_NoTotal ==
  <<77, 101, 109, 70, 114, 101, 101, 58, 32, 32, 32, 32, 32, 32, 32, 32,
    50, 32, 107, 66, 10, 77, 101, 109, 65, 118, 97, 105, 108, 97, 98, 108,
    101, 58, 32, 32, 32, 52, 32, 107, 66, 10>>
\* 'MemTotal:\nMemAvailable: 4 kB'
M_TotalNoValue ==
  <<77, 101, 109, 84, 111, 116, 97, 108, 58, 10, 77, 101, 109, 65, 118,
    97, 105, 108, 97, 98, 108, 101, 58, 32, 52, 32, 107, 66>>
\* 'MemTotal: 8 kB\nMemAvailable: n/a\n'
M_AvailableNoNumber ==
  <<77, 101, 109, 84, 111, 116, 97, 108, 58, 32, 56, 32, 107, 66, 10, 77,
    101, 109, 65, 118, 97, 105, 108, 97, 98, 108, 101, 58, 32, 110, 47, 97,
    10>>
\* 'MemAvailable: 20 kB\nMemTotal: 8 kB\n'
M_AvailableFirst ==
  <<77, 101, 109, 65, 118, 97, 105, 108, 97, 98, 108, 101, 58, 32, 50, 48,
    32, 107, 66, 10, 77, 101, 109, 84, 111, 116, 97, 108, 58, 32, 56, 32,
    107, 66, 10>>

FsChoices ==
  {Throws} \cup [dockerenv : BOOLEAN, cgroup : BOOLEAN]

OsChoices ==
  {Throws}
    \cup [distro : {D_Win11zh, D_Win10, D_WinServer, D_Win11v10, D_Ubuntu,
                    D_Debian},
          platform : {Undefined}]
    \cup [distro : {D_Chinese, <<>>, Undefined},
          platform : {P_linux, P_Windows, Undefined}]

MeminfoChoices ==
  {Throws}
    \cup [text : {M_Full, M_NoAvailable, M_ZeroTotal, M_NoTotal,
                  M_TotalNoValue, M_AvailableNoNumber, M_AvailableFirst}]

SiMemChoices == {Throws, [used |-> Num(6144), total |-> Num(16384)]}

HeapChoices == {Throws, [heapUsed |-> Num(300), heapTotal |-> Num(500)]}

PoolChoices ==
  {Null, [stats |-> Throws],
   [stats |-> [activeWorkers |-> 1, queued |-> 2]],
   [stats |-> [activeWorkers |-> 0, queued |-> 0]]}

DefaultHost ==
  [fs      |-> [dockerenv |-> FALSE, cgroup |-> FALSE],
   meminfo |-> [text |-> M_Full],
   simem   |-> [used |-> Num(6144), total |-> Num(16384)],
   heap    |-> [heapUsed |-> Num(300), heapTotal |-> Num(500)],
   os      |-> [distro |-> D_Ubuntu, platform |-> P_linux],
   pool    |-> [stats |-> [activeWorkers |-> 1, queued |-> 2]]]

\* Hosts that differ from the default one in the operating-system answer, in
\* the memory sources or in the worker pool, each together with the markers.
Hosts ==
  {[DefaultHost EXCEPT !.fs = f, !.os = o] : f \in FsChoices, o \in OsChoices}
    \cup {[DefaultHost EXCEPT !.fs = f, !.meminfo = m, !.simem = s, !.heap = p] :
            f \in FsChoices, m \in MeminfoChoices, s \in SiMemChoices,
            p \in HeapChoices}
    \cup {[DefaultHost EXCEPT !.pool = w] : w \in PoolChoices}

(***************************************************************************)
(* Inputs: time zones, clocks and record stores.                           *)
(***************************************************************************)
Instant(y, m, d, hh, mm) == DaysFromCivil(y, m, d) * MinutesPerDay + hh * 60 + mm

FixedZone(offset) == [std |-> offset, dst |-> offset, at |-> 0]

\* UTC, UTC+8, UTC-5, and Europe/London around its two 2024 transitions.
TimeZones ==
  {FixedZone(0), FixedZone(480), FixedZone(-300),
   [std |-> 0, dst |-> 60, at |-> Instant(2024, 3, 31, 1, 0)],
   [std |-> 60, dst |-> 0, at |-> Instant(2024, 10, 27, 1, 0)]}

\* The spec's example day, the last minute of a month, a week that holds a
\* leap day, and a week around each London transition.
Nows ==
  {Instant(2024, 1, 3, 10, 0), Instant(2024, 1, 31, 23, 59),
   Instant(2024, 3, 3, 2, 0), Instant(2024, 4, 2, 12, 0),
   Instant(2024, 10, 29, 12, 0)}

\* Ages of the records at the first clock read, in minutes.
Ages == {30, 90, 4400, 9000, 50000}

Photo(now, age) ==
  [id |-> age, dateTaken |-> toISOString(now - age), fileSize |-> age]

PhotoSets(now) ==
  {{Photo(now, a) : a \in A} :
     A \in {B \in SUBSET Ages : Cardinality(B) <= MaxPhotos}}

(***************************************************************************)
(* State.                                                                  *)
(***************************************************************************)
VARIABLE tz             \* the host's time zone
VARIABLE host           \* the host's files and facilities
VARIABLE photos         \* the rows of the photos table
VARIABLE boot           \* the instant the process started
VARIABLE clock          \* the current instant
VARIABLE pc             \* where the request handler stands
VARIABLE h              \* the handler's locals
VARIABLE dbInstance     \* db.ts: the drizzle wrapper, by the connection it wraps
VARIABLE sqliteInstance \* db.ts: the connection the module refers to
VARIABLE openConns      \* connections opened and not closed

vars ==
  <<tz, host, photos, boot, clock, pc, h, dbInstance, sqliteInstance, openConns>>
envVars == <<tz, host, photos, boot>>
dbVars == <<dbInstance, sqliteInstance, openConns>>

\* The value of dbInstance and sqliteInstance before the first useDB().
NoConn == 0
ConnIds == 1..MaxConn

\* The handler's locals when a request arrives.
NewLocals ==
  [session      |-> "pending",
   failedQuery  |-> FALSE,
   queries      |-> {},
   probes       |-> {},
   nowToday     |-> 0,
   nowWeek      |-> 0,
   nowMonth     |-> 0,
   today        |-> 0,
   weekAgo      |-> 0,
   monthStart   |-> 0,
   sevenDaysAgo |-> 0,
   totalPhotos  |-> Null,
   todayPhotos  |-> Null,
   weekPhotos   |-> Null,
   monthPhotos  |-> Null,
   storageStats |-> Null,
   rawTrendData |-> <<>>,
   trendData    |-> <<>>,
   osInfo       |-> S_unknown,
   memory       |-> Null,
   memoryFrom   |-> "unset",
   report       |-> Null]

InitCommon ==
  /\ boot = clock
  /\ pc = "session"
  /\ h = NewLocals
  /\ dbInstance = NoConn
  /\ sqliteInstance = NoConn
  /\ openConns = {}

\* Every time zone, clock and small record store on the default host, and
\* every host with one clock and one record store.
Init ==
  /\ \/ /\ tz \in TimeZones
        /\ clock \in Nows
        /\ photos \in PhotoSets(clock)
        /\ host = DefaultHost
     \/ /\ tz = FixedZone(0)
        /\ clock = Instant(2024, 1, 3, 10, 0)
        /\ photos = {Photo(clock, 30)}
        /\ host \in Hosts
  /\ InitCommon

(***************************************************************************)
(* db.ts                                                                   *)
(***************************************************************************)
FreeConns == ConnIds \ openConns

\* useDB().  outcome is "ok" when it returns the wrapper, "openFail" when
\* new Database() throws, "initFail" when a pragma or drizzle() throws.  The
\* process cannot open a connection when it already holds MaxConn of them.
useDB(outcome) ==
  IF dbInstance # NoConn /\ sqliteInstance # NoConn
  THEN outcome = "ok" /\ UNCHANGED dbVars
  ELSE \/ outcome = "openFail" /\ UNCHANGED dbVars
       \/ /\ outcome \in {"initFail", "ok"}
          /\ FreeConns # {}
          /\ LET c == CHOOSE x \in FreeConns : \A y \in FreeConns : x <= y
             IN  /\ sqliteInstance' = c
                 /\ openConns' = openConns \cup {c}
                 /\ dbInstance' = IF outcome = "ok" THEN c ELSE dbInstance

UseDBOutcomes == {"ok", "openFail", "initFail"}

\* useDB() called by another part of the server.
UseDB ==
  /\ \E o \in UseDBOutcomes : useDB(o)
  /\ UNCHANGED <<envVars, clock, pc, h>>

\* closeDB()
CloseDB ==
  /\ IF sqliteInstance # NoConn
     THEN /\ openConns' = openConns \ {sqliteInstance}
          /\ sqliteInstance' = NoConn
          /\ dbInstance' = NoConn
     ELSE UNCHANGED dbVars
  /\ UNCHANGED <<envVars, clock, pc, h>>

(***************************************************************************)
(* The request handler, one action for each await.                         *)
(***************************************************************************)
\* Variant: a failed session check does not stop the handler.
sessionNext_m(ok) == "total"

\* Variant: a failed query does not stop the handler.
afterQuery_m(failed, next) == next

\* Where the handler goes after requireUserSession.
sessionNext(ok) == IF ok THEN "total" ELSE "rejected"

\* Where the handler goes after an awaited record-store query.
afterQuery(failed, next) == IF failed THEN "failed" ELSE next

\* Where the handler goes after an awaited probe of the return expression.
afterProbe(threw, next) == IF threw THEN "failed" ELSE next

\* await requireUserSession(event)
Session ==
  /\ pc = "session"
  /\ \E ok \in BOOLEAN :
       /\ h' = [h EXCEPT !.session = IF ok THEN "ok" ELSE "rejected"]
       /\ pc' = sessionNext(ok)
  /\ UNCHANGED <<envVars, clock, dbVars>>

\* await useDB().select(...)...: useDB() runs, then the query; either may
\* fail.  locals is what the handler holds when the query has answered.
RunQuery(name, next, locals) ==
  \E o \in UseDBOutcomes, queryFails \in BOOLEAN :
    /\ useDB(o)
    /\ LET failed == o # "ok" \/ queryFails
       IN  /\ h' = IF failed
                   THEN [h EXCEPT !.queries = @ \cup {name}, !.failedQuery = TRUE]
                   ELSE [locals EXCEPT !.queries = @ \cup {name}]
           /\ pc' = afterQuery(failed, next)

\* new Date(): time may have passed since the clock was last read.
ReadClock == \E adv \in 0..(MaxElapsed - (clock - boot)) : clock' = clock + adv

QTotal ==
  /\ pc = "total"
  /\ RunQuery("total", "today", [h EXCEPT !.totalPhotos = countAll(photos)])
  /\ UNCHANGED <<envVars, clock>>

QToday ==
  /\ pc = "today"
  /\ ReadClock
  /\ LET today == todayOf(tz, clock')
     IN  RunQuery("today", "week",
                  [h EXCEPT !.nowToday = clock', !.today = today,
                            !.todayPhotos = countSince(photos, toISOString(today))])
  /\ UNCHANGED envVars

QWeek ==
  /\ pc = "week"
  /\ ReadClock
  /\ LET weekAgo == weekAgoOf(tz, clock')
     IN  RunQuery("week", "month",
                  [h EXCEPT !.nowWeek = clock', !.weekAgo = weekAgo,
                            !.weekPhotos = countSince(photos, toISOString(weekAgo))])
  /\ UNCHANGED envVars

QMonth ==
  /\ pc = "month"
  /\ ReadClock
  /\ LET monthStart == monthStartOf(tz, clock')
     IN  RunQuery("month", "storage",
                  [h EXCEPT !.nowMonth = clock', !.monthStart = monthStart,
                            !.monthPhotos =
                               countSince(photos, toISOString(monthStart))])
  /\ UNCHANGED envVars

QStorage ==
  /\ pc = "storage"
  /\ RunQuery("storage", "trend", [h EXCEPT !.storageStats = storageQuery(photos)])
  /\ UNCHANGED <<envVars, clock>>

\* The grouped query and the loop that follows it.
QTrend ==
  /\ pc = "trend"
  /\ LET sevenDaysAgo == sevenDaysAgoOf(tz, h.today)
         rawTrendData == trendQuery(photos, toISOString(sevenDaysAgo))
     IN  RunQuery("trend", "os",
                  [h EXCEPT !.sevenDaysAgo = sevenDaysAgo,
                            !.rawTrendData = rawTrendData,
                            !.trendData =
                               buildTrendData(tz, sevenDaysAgo, rawTrendData)])
  /\ UNCHANGED <<envVars, clock>>

\* The try block that resolves osInfo.
OsInfo ==
  /\ pc = "os"
  /\ LET r == resolveOsInfo(host)
     IN  h' = [h EXCEPT !.osInfo = r.label, !.probes = @ \cup r.probes]
  /\ pc' = "memory"
  /\ UNCHANGED <<envVars, clock, dbVars>>

\* memory: (await getMemoryStats()) || { used: 0, total: 0 }
Memory ==
  /\ pc = "memory"
  /\ LET r == getMemoryStats(host)
     IN  /\ h' = [h EXCEPT !.probes = @ \cup r.probes,
                           !.memoryFrom = r.from,
                           !.memory = IF r.value = Throws THEN Null
                                      ELSE IF r.value = Null
                                      THEN [used |-> Num(0), total |-> Num(0)]
                                      ELSE r.value]
         /\ pc' = afterProbe(r.value = Throws, "pool")
  /\ UNCHANGED <<envVars, clock, dbVars>>

\* storageStats?.x || 0
storageOrZero(stats) ==
  IF stats = Null
  THEN [totalSize |-> 0, averageSize |-> [num |-> 0, den |-> 1], maxSize |-> 0]
  ELSE [totalSize |-> stats.totalSize, averageSize |-> stats.avgSize,
        maxSize |-> stats.maxSize]

\* The object the handler returns; stats is what getQueueStats() answered,
\* now the instant of the last new Date().
Report(stats, now) ==
  [uptime     |-> clock - boot,
   runningOn  |-> h.osInfo,
   memory     |-> h.memory,
   photos     |-> [total     |-> countOrZero(h.totalPhotos),
                   today     |-> countOrZero(h.todayPhotos),
                   thisWeek  |-> countOrZero(h.weekPhotos),
                   thisMonth |-> countOrZero(h.monthPhotos)],
   workerPool |-> stats,
   storage    |-> storageOrZero(h.storageStats),
   trends     |-> toReversed(h.trendData),
   timestamp  |-> toISOString(now)]

\* workerPool: (await getQueueStats()) || null, and the rest of the return.
Finish ==
  /\ pc = "pool"
  /\ ReadClock
  /\ LET stats == getQueueStats(host)
         threw == stats = Throws
     IN  /\ h' = [h EXCEPT !.probes = @ \cup {"getQueueStats"},
                           !.report = IF threw THEN Null ELSE Report(stats, clock')]
         /\ pc' = afterProbe(threw, "done")
  /\ UNCHANGED <<envVars, dbVars>>

\* The next request arrives.
NewRequest ==
  /\ pc \in {"done", "failed", "rejected"}
  /\ h' = NewLocals
  /\ pc' = "session"
  /\ UNCHANGED <<envVars, clock, dbVars>>

Next ==
  \/ Session
  \/ QTotal
  \/ QToday
  \/ QWeek
  \/ QMonth
  \/ QStorage
  \/ QTrend
  \/ OsInfo
  \/ Memory
  \/ Finish
  \/ NewRequest
  \/ UseDB
  \/ CloseDB

Spec == Init /\ [][Next]_vars

(***************************************************************************)
(* Properties.                                                             *)
(***************************************************************************)
Returned == pc = "done"
OsInfoRan == "checkIfDocker" \in h.probes
MemoryRan == h.memoryFrom # "unset"
PoolAsked == "getQueueStats" \in h.probes

\* C1: the trends of a returned report are exactly 7 points, each date one
\* calendar day after the date of the next point, the first date being the
\* host's calendar date at the instant the handler read the clock.
C1_TrendDates ==
  Returned =>
    LET trends == h.report.trends
    IN  /\ Len(trends) = 7
        /\ \A k \in 1..6 : trends[k].date = NextDate(trends[k + 1].date)
        /\ trends[1].date = LocalDate(tz, h.nowToday)

C3_Nested ==
  Returned =>
    LET p == h.report.photos
    IN  p.today <= p.thisWeek /\ p.thisWeek <= p.thisMonth /\ p.thisMonth <= p.total

SameLocalMonth(t, u) ==
  /\ LocalDate(tz, t)[1] = LocalDate(tz, u)[1]
  /\ LocalDate(tz, t)[2] = LocalDate(tz, u)[2]

\* C3 amended: today <= thisWeek <= total and thisMonth <= total; today <=
\* thisMonth when the clock reads of the two counts fall in one calendar
\* month; thisWeek <= thisMonth when moreover the day of the month is 8 or
\* later.
C3_Amended ==
  Returned =>
    LET p == h.report.photos
    IN  /\ p.today <= p.thisWeek
        /\ p.thisWeek <= p.total
        /\ p.thisMonth <= p.total
        /\ SameLocalMonth(h.nowToday, h.nowMonth) => p.today <= p.thisMonth
        /\ (SameLocalMonth(h.nowWeek, h.nowMonth) /\ getDate(tz, h.nowWeek) >= 8)
             => p.thisWeek <= p.thisMonth

\* A returned report whose counts differ between the windows.
C3_Witness ==
  /\ Returned
  /\ h.report.photos.today = 1
  /\ h.report.photos.thisWeek = 2
  /\ h.report.photos.thisMonth = 1

\* C4: once the handler has asked for the worker-pool statistics it returns
\* a report; workerPool is null when there is no pool or getPoolStats()
\* fails, and the answer of getPoolStats() otherwise.
C4_PoolNeverFatal ==
  PoolAsked =>
    /\ Returned
    /\ h.report.workerPool =
         (IF host.pool = Null \/ host.pool.stats = Throws
          THEN Null ELSE host.pool.stats)

\* C5: the memory probe never raises: once it has run the handler holds a
\* MemoryInfo, which is {used: 0, total: 0} when no source answered.
C5_MemoryNeverRaises ==
  MemoryRan =>
    /\ pc # "failed"
    /\ h.memory # Null
    /\ DOMAIN h.memory = {"used", "total"}
    /\ h.memoryFrom = "none" => h.memory = [used |-> Num(0), total |-> Num(0)]

\* C6: when a record-store query of the request has failed the request has
\* failed and holds no report; a report is held exactly by a request that
\* returned, and it has all eight fields, each populated.
C6_AllOrNothing ==
  /\ h.failedQuery => pc = "failed" /\ h.report = Null
  /\ Returned <=> h.report # Null
  /\ Returned =>
       /\ DOMAIN h.report = {"uptime", "runningOn", "memory", "photos",
                             "workerPool", "storage", "trends", "timestamp"}
       /\ h.queries = {"total", "today", "week", "month", "storage", "trend"}
       /\ h.report.memory # Null
       /\ h.report.runningOn # <<>>
       /\ DOMAIN h.report.photos = {"total", "today", "thisWeek", "thisMonth"}
       /\ DOMAIN h.report.storage = {"totalSize", "averageSize", "maxSize"}
       /\ Len(h.report.trends) = 7
       /\ Len(h.report.timestamp) = 5

\* A request that failed at its last record-store query.
C6_Witness ==
  /\ pc = "failed"
  /\ h.failedQuery
  /\ "trend" \in h.queries

\* The rule list of C7.
HasIgnoringCase(s, word) ==
  \E i \in 1..(Len(s) - Len(word) + 1) :
    \A j \in 1..Len(word) : s[i + j - 1] \in {word[j], word[j] - 32}

Detected == host.fs # Throws /\ (host.fs.dockerenv \/ host.fs.cgroup)

RawName ==
  IF host.os.distro \notin {<<>>, Undefined} THEN host.os.distro
  ELSE IF host.os.platform \notin {<<>>, Undefined} THEN host.os.platform
  ELSE S_unknown

ExpectedLabel ==
  IF Detected THEN S_docker
  ELSE IF host.os = Throws THEN S_unknown
  ELSE IF HasIgnoringCase(RawName, S_windows)
  THEN CASE includes(RawName, S_11) -> S_Windows11
         [] ~includes(RawName, S_11) /\ includes(RawName, S_10) -> S_Windows10
         [] OTHER -> S_WindowsPlain
  ELSE LET cleaned == trim(SelectSeq(RawName, LAMBDA c : c \in 0..127))
       IN  IF cleaned = <<>> THEN S_unknown ELSE cleaned

\* C7: once the osInfo block has run, the label is the result of the rule
\* list: "docker" when the process is detected as containerized, and then
\* si.osInfo() was not called; else the Windows labels by the substrings 11
\* and 10, in that order; else the name without non-ASCII units, trimmed, or
\* "unknown" when that is empty; "unknown" when si.osInfo() fails.  A
\* returned report carries that label.
C7_RunningOn ==
  OsInfoRan =>
    /\ h.osInfo = ExpectedLabel
    /\ Detected => "si.osInfo" \notin h.probes
    /\ Returned => h.report.runningOn = ExpectedLabel

\* A host outside a container whose name holds both 11 and 10.
C7_Witness ==
  /\ OsInfoRan
  /\ ~Detected
  /\ host.os # Throws
  /\ host.os.distro = D_Win11v10
  /\ h.osInfo = S_Windows11

\* C8: a query or probe has run only in a request whose session check has
\* succeeded; a request whose session check failed has run none and holds no
\* report.
C8_SessionFirst ==
  /\ (h.queries # {} \/ h.probes # {} \/ h.report # Null) => h.session = "ok"
  /\ pc \notin {"session", "rejected"} => h.session = "ok"
  /\ h.session = "rejected" => pc = "rejected"

\* A request rejected by the session check.
C8_Witness ==
  /\ pc = "rejected"
  /\ h.session = "rejected"
  /\ h.queries = {}
  /\ h.probes = {}

\* What /proc/meminfo states, in kB, for the texts of the model; a text
\* without a MemAvailable line counts as 0 available.
MeminfoFacts(text) ==
  CASE text = M_Full -> [total |-> Num(16), available |-> Num(4)]
    [] text = M_NoAvailable -> [total |-> Num(16), available |-> Num(0)]
    [] text = M_ZeroTotal -> [total |-> Num(0), available |-> Num(4)]
    [] text = M_NoTotal -> [total |-> Num(0), available |-> Num(4)]
    [] text = M_TotalNoValue -> [total |-> NaN, available |-> Num(4)]
    [] text = M_AvailableNoNumber -> [total |-> Num(8), available |-> NaN]
    [] text = M_AvailableFirst -> [total |-> Num(8), available |-> Num(20)]

PseudoFileWins ==
  /\ Detected
  /\ host.meminfo # Throws
  /\ MeminfoFacts(host.meminfo.text).total # NaN
  /\ MeminfoFacts(host.meminfo.text).total[1] > 0

\* C9: once the memory probe has run: when the process is detected as
\* containerized and /proc/meminfo gives a positive MemTotal, the result is
\* total = MemTotal * 1024, used = total - MemAvailable * 1024 and si.mem()
\* was not called; otherwise the result is what si.mem() answered; the heap
\* figures are the result exactly when si.mem() was needed and threw.
C9_MemoryOrder ==
  MemoryRan =>
    /\ PseudoFileWins =>
         LET f == MeminfoFacts(host.meminfo.text)
         IN  /\ h.memoryFrom = "meminfo"
             /\ h.memory.total = Num(f.total[1] * 1024)
             /\ h.memory.used =
                  (IF f.available = NaN THEN NaN
                   ELSE Num(f.total[1] * 1024 - f.available[1] * 1024))
             /\ "si.mem" \notin h.probes
    /\ (~PseudoFileWins /\ host.simem # Throws) =>
         /\ h.memoryFrom = "si.mem"
         /\ h.memory = [used |-> host.simem.used, total |-> host.simem.total]
    /\ h.memoryFrom = "heap" =>
         /\ host.simem = Throws
         /\ "si.mem" \in h.probes
         /\ h.memory = [used |-> host.heap.heapUsed, total |-> host.heap.heapTotal]
    /\ (~PseudoFileWins /\ host.simem = Throws /\ host.heap # Throws) =>
         h.memoryFrom = "heap"

\* A containerized process that took its figures from /proc/meminfo.
C9_Witness ==
  /\ MemoryRan
  /\ PseudoFileWins
  /\ h.memory = [used |-> Num(12288), total |-> Num(16384)]

\* C10: at most one connection is open, it is the one sqliteInstance refers
\* to, and dbInstance and sqliteInstance are both null or both set.
C10_SingleConnection ==
  /\ Cardinality(openConns) <= 1
  /\ openConns \subseteq {sqliteInstance}
  /\ dbInstance = NoConn <=> sqliteInstance = NoConn

====
